---------------------------- MODULE Spec2Model ----------------------------
(***************************************************************************)
(* Model of journal/src/journal.rs: the Journal reader over the systemd    *)
(* journal (sd_journal_* C API).                                           *)
(*                                                                         *)
(* Text is a sequence of one-character strings.  A byte sequence that is   *)
(* not valid UTF-8 is a text containing the character BadByte.  A HashMap  *)
(* is a function whose domain is its key set.  An unsigned 64-bit number   *)
(* is a tuple of four base-10^6 limbs, most significant first, so that the *)
(* real 64-bit constants can be written down and compared.                 *)
(***************************************************************************)
EXTENDS Integers, Sequences, FiniteSets, TLC

\* ------------------------------------------------------------------ bounds
MaxRecords == 2
MaxReads == 3

\* ------------------------------------------------------------------- text
BadByte == "\\xFF"

\* str::find('='): the 1-based position of the first '=', 0 for None.
RECURSIVE FindFrom(_, _, _)
FindFrom(s, c, i) ==
    IF i > Len(s) THEN 0
    ELSE IF s[i] = c THEN i
    ELSE FindFrom(s, c, i + 1)

Find(s, c) == FindFrom(s, c, 1)

\* str::split_at(idx) with the 0-based byte index idx: (s[..idx], s[idx..]).
split_at(s, idx) == << SubSeq(s, 1, idx), SubSeq(s, idx + 1, Len(s)) >>

\* CStr::to_str(): Ok for valid UTF-8, Err otherwise (unwrap() then panics).
to_str_ok(bytes) == \A i \in 1..Len(bytes) : bytes[i] # BadByte

\* -------------------------------------------------------------- HashMap
HashMapNew == << >>

HashMapInsert(m, k, v) ==
    [x \in (DOMAIN m) \cup {k} |-> IF x = k THEN v ELSE m[x]]

\* A faulty variant of DecodeInto: it splits at the last '=' (rfind).
DecodeIntoLastEq(journal_entries, journal_message) ==
    LET eqs == {i \in 1..Len(journal_message) : journal_message[i] = "="}
    IN  IF eqs = {} THEN journal_entries
        ELSE LET p == CHOOSE i \in eqs : \A j \in eqs : j <= i
             IN  HashMapInsert(journal_entries,
                               SubSeq(journal_message, 1, p - 1),
                               SubSeq(journal_message, p + 1, Len(journal_message)))

\* The match on journal_message.find('=') of obtain_journal_data: the
\* mapping after one raw field text has been decoded into it.
DecodeInto(journal_entries, journal_message) ==
    LET pos == Find(journal_message, "=")
    IN  IF pos # 0
        THEN LET idx == pos - 1
                 key == split_at(journal_message, idx)[1]
                 msg == split_at(journal_message, idx)[2]
             IN  HashMapInsert(journal_entries, key, SubSeq(msg, 2, Len(msg)))
        ELSE journal_entries

\* ------------------------------------------------------------------- u64
\* Limbs are base 10^6: <<a, b, c, d>> is a*10^18 + b*10^12 + c*10^6 + d.
U64_MAX == << 18, 446744, 73709, 551615 >>
I64_MAX == << 9, 223372, 36854, 775807 >>
\* The last second chrono's NaiveDateTime can hold (262143-12-31T23:59:59).
CHRONO_MAX_SECS == << 0, 8, 210298, 412799 >>

RECURSIVE LimbLeq(_, _, _)
LimbLeq(a, b, i) ==
    IF i > Len(a) THEN TRUE
    ELSE IF a[i] < b[i] THEN TRUE
    ELSE IF a[i] > b[i] THEN FALSE
    ELSE LimbLeq(a, b, i + 1)

U64Leq(a, b) == LimbLeq(a, b, 1)

\* i64::try_from(usec): Ok exactly when usec <= i64::MAX.
i64_try_from_ok(usec) == U64Leq(usec, I64_MAX)

\* NaiveDateTime::from_timestamp(secs, 0) for secs >= 0: panics when secs is
\* past the last representable second.
from_timestamp_ok(secs) == U64Leq(secs, CHRONO_MAX_SECS)

\* ------------------------------------------------------- the journal store
\* crate::sys::journal's well-known keys.
JOURNAL_REALTIME_TIMESTAMP_KEY ==
    << "_", "_", "R", "E", "A", "L", "T", "I", "M", "E" >>
JOURNAL_MONOTOMIC_TIMESTAMP_KEY ==
    << "_", "_", "M", "O", "N", "O", "T", "O", "N", "I", "C" >>

F_MESSAGE == << "M", "E", "S", "S", "A", "G", "E", "=", "h", "e", "l", "l", "o" >>
F_PRIORITY == << "P", "R", "I", "O", "R", "I", "T", "Y", "=", "6" >>
F_OLD == << "M", "E", "S", "S", "A", "G", "E", "=", "o", "l", "d" >>
F_EMPTYVAL == << "K", "=" >>
F_TWOEQ == << "A", "=", "B", "=", "C" >>
F_NOEQ == << "N", "O", "E", "Q" >>
F_BAD == << "X", "=", BadByte >>
F_DUP1 == << "D", "=", "1" >>
F_DUP2 == << "D", "=", "2" >>
F_RAWTS == JOURNAL_REALTIME_TIMESTAMP_KEY \o << "=", "r", "a", "w" >>

\* Realtime values, in microseconds since the epoch.
T_EARLY == << 0, 0, 1, 0 >>              \* 1970-01-01T00:00:01
T_NOW == << 0, 1700, 0, 0 >>             \* 2023-11-14T22:13:20
T_OVER == << 9, 223372, 36854, 775808 >> \* i64::MAX + 1

Rec(fields, realtime) ==
    [fields |-> fields, realtime |-> realtime, monotonic |-> << 0, 0, 0, 7 >>]

\* The records the store may hold.
Records ==
    { Rec(<< F_MESSAGE, F_PRIORITY >>, T_EARLY),
      Rec(<< F_OLD >>, T_NOW),
      Rec(<< F_NOEQ, F_TWOEQ, F_EMPTYVAL >>, T_EARLY),
      Rec(<< F_BAD, F_PRIORITY >>, T_EARLY),
      Rec(<< >>, T_EARLY),
      Rec(<< F_DUP1, F_DUP2 >>, T_EARLY),
      Rec(<< F_RAWTS, F_OLD >>, T_EARLY),
      Rec(<< F_PRIORITY >>, T_OVER) }

\* The raw field texts lying in the store's memory map, and bytes that are
\* no text at all.
MemoryTexts(st) ==
    UNION { { st[i].fields[j] : j \in 1..Len(st[i].fields) } : i \in 1..Len(st) }
        \cup { << BadByte >> }

\* What a read through a pointer the store did not deliver in this call can
\* give: the process dies, or some bytes of the map are read as the text.
Crash == << "SIGSEGV" >>
DanglingReads(st) == { Crash } \cup MemoryTexts(st)

\* The store call that returns an error: the at-th call of `op` within one
\* call of new() or read() (NoFault: every call succeeds).
NoFault == [op |-> "none", at |-> 0]
Faults ==
    { NoFault }
        \cup { [op |-> o, at |-> 1] :
                 o \in { "open", "next", "get_realtime_usec", "get_monotonic_usec" } }
        \cup { [op |-> "enumerate_data", at |-> j] :
                 j \in UNION { 1..(Len(r.fields) + 1) : r \in Records } }

\* ------------------------------------------------------------------ state
VARIABLES
    store,           \* the journal: a sequence of records, append-only
    cursor,          \* sd_journal: index of the current record, 0 before the first
    current_field,   \* sd_journal: fields of the current record enumerated so far
    journal_handle,  \* Journal.journal_handle: "null", "open" or "closed"
    timestamp,       \* Journal.timestamp ("unset" while no Journal exists)
    phase,           \* the caller: "start", "live", "unwinding", "dropped",
                     \* "aborted" (new() panicked), "crashed" (process killed)
    closes,          \* sd_journal_close calls issued
    used_after_close,\* a store call was issued on a closed handle
    n0,              \* records in the store when the Journal was constructed
    reads,           \* read() calls made
    ret,             \* outcome of the last read()
    ops,             \* store calls the last read() issued, in order
    decoded,         \* the passes of the last read()'s loop that decoded a text
    next_rc,         \* what sd_journal_next returned to the last read()
    seen,            \* records in the store when the last read() was made
    fault,           \* fault injected into the last read()
    dangling,        \* what the last read() got through an undelivered pointer
    derived          \* the timestamp the last read() derived, and how far it got

vars ==
    << store, cursor, current_field, journal_handle, timestamp, phase, closes,
       used_after_close, n0, reads, ret, ops, decoded, next_rc, seen, fault,
       dangling, derived >>

TimestampType == { "None", "Real", "Mono" }

NoRet == [kind |-> "init", map |-> HashMapNew, rec |-> 0]
RetNone == [kind |-> "none", map |-> HashMapNew, rec |-> 0]
RetPanic == [kind |-> "panic", map |-> HashMapNew, rec |-> 0]
RetCrash == [kind |-> "crash", map |-> HashMapNew, rec |-> 0]
RetSome(m, r) == [kind |-> "some", map |-> m, rec |-> r]

\* No timestamp was asked for.
NoTs == [stage |-> "none", usec |-> << >>, secs |-> << >>]

\* ------------------------------------------------------------ store calls
\* Each returns the C return code rc and the handle state the call leaves.

\* ffi_invoke_and_expect!: a negative return code is fatal.
ffi_invoke_and_expect_ok(rc) == rc >= 0

\* sd_journal_next(3): 1 when the cursor moved to the next record, 0 at the
\* end, negative on error.
sd_journal_next(st, cur, f) ==
    IF f.op = "next" THEN [rc |-> -1, cursor |-> cur]
    ELSE IF cur < Len(st) THEN [rc |-> 1, cursor |-> cur + 1]
    ELSE [rc |-> 0, cursor |-> cur]

\* sd_journal_restart_data(3): the next enumerate call returns the first field.
sd_journal_restart_data(cf) == 0

\* sd_journal_enumerate_data(3): positive when the next field was read (its
\* buffer is delivered through data_ptr), 0 when no more fields remain
\* (data_ptr is left alone), negative on error; no current record is an error.
sd_journal_enumerate_data(st, cur, cf, data_ptr, f, calls) ==
    IF (f.op = "enumerate_data" /\ f.at = calls + 1) \/ cur = 0
    THEN [rc |-> -1, current_field |-> cf, data_ptr |-> data_ptr]
    ELSE IF cf < Len(st[cur].fields)
    THEN [rc |-> 1, current_field |-> cf + 1, data_ptr |-> cf + 1]
    ELSE [rc |-> 0, current_field |-> cf, data_ptr |-> data_ptr]

\* sd_journal_get_realtime_usec(3)
sd_journal_get_realtime_usec(st, cur, f) ==
    IF f.op = "get_realtime_usec" \/ cur = 0
    THEN [rc |-> -1, usec |-> << 0, 0, 0, 0 >>]
    ELSE [rc |-> 0, usec |-> st[cur].realtime]

\* sd_journal_get_monotonic_usec(3)
sd_journal_get_monotonic_usec(st, cur, f) ==
    IF f.op = "get_monotonic_usec" \/ cur = 0
    THEN [rc |-> -1, usec |-> << 0, 0, 0, 0 >>]
    ELSE [rc |-> 0, usec |-> st[cur].monotonic]

\* --------------------------------------------------------------- Journal
None == "None"
Undelivered == << "unused" >>

\* The loop of obtain_journal_data, from its n-th pass on.  data_ptr is 0
\* for the null pointer and j for the buffer of the record's j-th field.  A
\* pass whose enumerate call returned 0 reads through the pointer the call
\* left alone: the null pointer kills the process, the pointer to the buffer
\* of the previous pass, which the store no longer keeps valid, gives `ub`.
RECURSIVE EnumerateLoop(_, _, _, _, _, _, _, _, _)
EnumerateLoop(st, cur, cf, data_ptr, journal_entries, f, ub, calls, texts) ==
    LET e == sd_journal_enumerate_data(st, cur, cf, data_ptr, f, calls)
        remaining == e.rc
        got == IF remaining > 0 THEN st[cur].fields[e.data_ptr]
               ELSE IF e.data_ptr = 0 THEN Crash
               ELSE ub
        out == [kind |-> "ok", entries |-> journal_entries,
                current_field |-> e.current_field, calls |-> calls + 1,
                decoded |-> texts, dangling |-> Undelivered, hit |-> NoFault]
    IN  IF ~ffi_invoke_and_expect_ok(remaining)
        THEN [out EXCEPT !.kind = "panic", !.hit = f]
        ELSE LET through == IF remaining > 0 THEN Undelivered ELSE got
             IN  IF got = Crash
                 THEN [out EXCEPT !.kind = "crash", !.dangling = through]
                 ELSE IF ~to_str_ok(got)
                 THEN [out EXCEPT !.kind = "panic", !.dangling = through]
                 ELSE LET after == DecodeInto(journal_entries, got)
                          pass == [text |-> got, into |-> journal_entries,
                                   out |-> after]
                      IN  IF remaining = 0
                          THEN [out EXCEPT !.entries = after,
                                           !.dangling = through,
                                           !.decoded = Append(texts, pass)]
                          ELSE EnumerateLoop(st, cur, e.current_field,
                                             e.data_ptr, after, f, ub,
                                             calls + 1, Append(texts, pass))

\* Journal::get_journal_monotonic
get_journal_monotonic(st, cur, f) ==
    LET r == sd_journal_get_monotonic_usec(st, cur, f)
    IN  IF ~ffi_invoke_and_expect_ok(r.rc)
        THEN [kind |-> "panic", hit |-> f,
              ts |-> [stage |-> "query", usec |-> << >>, secs |-> << >>]]
        ELSE [kind |-> "ok", hit |-> NoFault,
              ts |-> [stage |-> "ok", usec |-> r.usec, secs |-> << >>]]

\* A faulty variant of get_journal_realtime: `usec as i64` in place of
\* i64::try_from(usec).unwrap(), so no value is turned away by the cast.
get_journal_realtime_cast(st, cur, f) ==
    LET r == sd_journal_get_realtime_usec(st, cur, f)
        usec == r.usec
    IN  IF ~ffi_invoke_and_expect_ok(r.rc)
        THEN [kind |-> "panic", hit |-> f,
              ts |-> [stage |-> "query", usec |-> << >>, secs |-> << >>]]
        ELSE IF ~from_timestamp_ok(usec)
        THEN [kind |-> "panic", hit |-> NoFault,
              ts |-> [stage |-> "from_timestamp", usec |-> usec, secs |-> usec]]
        ELSE [kind |-> "ok", hit |-> NoFault,
              ts |-> [stage |-> "ok", usec |-> usec, secs |-> usec]]

\* Journal::get_journal_realtime.  `secs` is the count of seconds handed to
\* NaiveDateTime::from_timestamp, which the NaiveDateTime then denotes;
\* `stage` is "query", "try_from" or "from_timestamp" for the call that
\* panicked and "ok" when the NaiveDateTime was built.
get_journal_realtime(st, cur, f) ==
    LET r == sd_journal_get_realtime_usec(st, cur, f)
        usec == r.usec
    IN  IF ~ffi_invoke_and_expect_ok(r.rc)
        THEN [kind |-> "panic", hit |-> f,
              ts |-> [stage |-> "query", usec |-> << >>, secs |-> << >>]]
        ELSE IF ~i64_try_from_ok(usec)
        THEN [kind |-> "panic", hit |-> NoFault,
              ts |-> [stage |-> "try_from", usec |-> usec, secs |-> << >>]]
        ELSE IF ~from_timestamp_ok(usec)
        THEN [kind |-> "panic", hit |-> NoFault,
              ts |-> [stage |-> "from_timestamp", usec |-> usec, secs |-> usec]]
        ELSE [kind |-> "ok", hit |-> NoFault,
              ts |-> [stage |-> "ok", usec |-> usec, secs |-> usec]]

\* Journal::obtain_journal_timestamp
\* A faulty variant of obtain_journal_timestamp: the `_` arm asks for the
\* realtime stamp as the Real arm does.
obtain_journal_timestamp_always(ts, st, cur, f, journal_entries) ==
    LET q == IF ts = "Mono" THEN get_journal_monotonic(st, cur, f)
             ELSE get_journal_realtime(st, cur, f)
        called == IF ts = "Mono" THEN << "get_monotonic_usec" >>
                  ELSE << "get_realtime_usec" >>
    IN  [kind |-> q.kind, entries |-> journal_entries,
         ops |-> called, hit |-> q.hit, ts |-> q.ts]

obtain_journal_timestamp(ts, st, cur, f, journal_entries) ==
    LET ts_opt == None
        key == CASE ts = "Real" -> JOURNAL_REALTIME_TIMESTAMP_KEY
                 [] ts = "Mono" -> JOURNAL_MONOTOMIC_TIMESTAMP_KEY
                 [] OTHER -> << >>
        q == CASE ts = "Real" -> get_journal_realtime(st, cur, f)
               [] ts = "Mono" -> get_journal_monotonic(st, cur, f)
               [] OTHER -> [kind |-> "ok", hit |-> NoFault, ts |-> NoTs]
        called == CASE ts = "Real" -> << "get_realtime_usec" >>
                    [] ts = "Mono" -> << "get_monotonic_usec" >>
                    [] OTHER -> << >>
    IN  [kind |-> q.kind,
         entries |-> IF ts_opt # None
                     THEN HashMapInsert(journal_entries, key, ts_opt)
                     ELSE journal_entries,
         ops |-> called, hit |-> q.hit, ts |-> q.ts]

\* Journal::obtain_journal_data
obtain_journal_data(ts, st, cur, cf, f, ub) ==
    LET data_ptr == 0
        journal_entries == HashMapNew
        loop == EnumerateLoop(st, cur, sd_journal_restart_data(cf), data_ptr,
                              journal_entries, f, ub, 0, << >>)
        loop_ops == << "restart_data" >> \o [i \in 1..loop.calls |-> "enumerate_data"]
        t == obtain_journal_timestamp(ts, st, cur, f, loop.entries)
    IN  IF loop.kind # "ok"
        THEN [kind |-> loop.kind, entries |-> HashMapNew,
              current_field |-> loop.current_field, ops |-> loop_ops,
              decoded |-> loop.decoded, dangling |-> loop.dangling,
              hit |-> loop.hit, ts |-> NoTs]
        ELSE [kind |-> t.kind,
              entries |-> IF t.kind = "ok" THEN t.entries ELSE HashMapNew,
              current_field |-> loop.current_field, ops |-> loop_ops \o t.ops,
              decoded |-> loop.decoded, dangling |-> loop.dangling,
              hit |-> t.hit, ts |-> t.ts]

\* A faulty variant of advance: it tests `inc >= 0` instead of `inc == 1`.
advance_unless_error(ts, st, cur, cf, f, ub) ==
    LET n == sd_journal_next(st, cur, f)
        inc == n.rc
        idle == [ret |-> RetNone, cursor |-> n.cursor, current_field |-> cf,
                 inc |-> inc, ops |-> << "next" >>, decoded |-> << >>,
                 dangling |-> Undelivered, hit |-> NoFault, ts |-> NoTs]
    IN  IF ~ffi_invoke_and_expect_ok(inc)
        THEN [idle EXCEPT !.ret = RetPanic, !.hit = f]
        ELSE LET d == obtain_journal_data(ts, st, n.cursor, cf, f, ub)
             IN  [ret |-> CASE d.kind = "ok" -> RetSome(d.entries, n.cursor)
                            [] d.kind = "panic" -> RetPanic
                            [] OTHER -> RetCrash,
                  cursor |-> n.cursor, current_field |-> d.current_field,
                  inc |-> inc, ops |-> << "next" >> \o d.ops,
                  decoded |-> d.decoded, dangling |-> d.dangling, hit |-> d.hit,
                  ts |-> d.ts]

\* A faulty variant of advance: at the end it seeks back to the head.
advance_rewind(ts, st, cur, cf, f, ub) ==
    LET n == sd_journal_next(st, cur, f)
        inc == n.rc
        idle == [ret |-> RetNone, cursor |-> n.cursor, current_field |-> cf,
                 inc |-> inc, ops |-> << "next" >>, decoded |-> << >>,
                 dangling |-> Undelivered, hit |-> NoFault, ts |-> NoTs]
    IN  IF ~ffi_invoke_and_expect_ok(inc)
        THEN [idle EXCEPT !.ret = RetPanic, !.hit = f]
        ELSE IF inc = 1
        THEN LET d == obtain_journal_data(ts, st, n.cursor, cf, f, ub)
             IN  [ret |-> CASE d.kind = "ok" -> RetSome(d.entries, n.cursor)
                            [] d.kind = "panic" -> RetPanic
                            [] OTHER -> RetCrash,
                  cursor |-> n.cursor, current_field |-> d.current_field,
                  inc |-> inc, ops |-> << "next" >> \o d.ops, decoded |-> d.decoded,
                  dangling |-> d.dangling, hit |-> d.hit, ts |-> d.ts]
        ELSE [idle EXCEPT !.cursor = 0]

\* Journal::advance
\* A faulty variant of advance: any return of sd_journal_next other than 1,
\* an error included, is taken for the end of the journal.
advance_error_as_end(ts, st, cur, cf, f, ub) ==
    LET n == sd_journal_next(st, cur, f)
        inc == n.rc
        idle == [ret |-> RetNone, cursor |-> n.cursor, current_field |-> cf,
                 inc |-> inc, ops |-> << "next" >>, decoded |-> << >>,
                 dangling |-> Undelivered, hit |-> NoFault, ts |-> NoTs]
    IN  IF inc = 1
        THEN LET d == obtain_journal_data(ts, st, n.cursor, cf, f, ub)
             IN  [ret |-> CASE d.kind = "ok" -> RetSome(d.entries, n.cursor)
                            [] d.kind = "panic" -> RetPanic
                            [] OTHER -> RetCrash,
                  cursor |-> n.cursor, current_field |-> d.current_field,
                  inc |-> inc, ops |-> << "next" >> \o d.ops, decoded |-> d.decoded,
                  dangling |-> d.dangling, hit |-> d.hit, ts |-> d.ts]
        ELSE [idle EXCEPT !.hit = IF inc < 0 THEN f ELSE NoFault]

advance(ts, st, cur, cf, f, ub) ==
    LET n == sd_journal_next(st, cur, f)
        inc == n.rc
        idle == [ret |-> RetNone, cursor |-> n.cursor, current_field |-> cf,
                 inc |-> inc, ops |-> << "next" >>, decoded |-> << >>,
                 dangling |-> Undelivered, hit |-> NoFault, ts |-> NoTs]
    IN  IF ~ffi_invoke_and_expect_ok(inc)
        THEN [idle EXCEPT !.ret = RetPanic, !.hit = f]
        ELSE IF inc = 1
        THEN LET d == obtain_journal_data(ts, st, n.cursor, cf, f, ub)
             IN  [ret |-> CASE d.kind = "ok" -> RetSome(d.entries, n.cursor)
                            [] d.kind = "panic" -> RetPanic
                            [] OTHER -> RetCrash,
                  cursor |-> n.cursor, current_field |-> d.current_field,
                  inc |-> inc, ops |-> << "next" >> \o d.ops, decoded |-> d.decoded,
                  dangling |-> d.dangling, hit |-> d.hit, ts |-> d.ts]
        ELSE idle

\* Journal::read
read(ts, st, cur, cf, f, ub) == advance(ts, st, cur, cf, f, ub)

\* ---------------------------------------------------------------- actions
Init ==
    /\ store = << >>
    /\ cursor = 0
    /\ current_field = 0
    /\ journal_handle = "null"
    /\ timestamp = "unset"
    /\ phase = "start"
    /\ closes = 0
    /\ used_after_close = FALSE
    /\ n0 = 0
    /\ reads = 0
    /\ ret = NoRet
    /\ ops = << >>
    /\ decoded = << >>
    /\ next_rc = 0
    /\ seen = 0
    /\ fault = NoFault
    /\ dangling = Undelivered
    /\ derived = NoTs

\* Another process appends a record to the journal.
AppendRecord ==
    /\ phase \in { "start", "live" }
    /\ Len(store) < MaxRecords
    /\ \E r \in Records : store' = Append(store, r)
    /\ UNCHANGED << cursor, current_field, journal_handle, timestamp, phase,
                    closes, used_after_close, n0, reads, ret, ops, decoded,
                    next_rc, seen, fault, dangling, derived >>

\* Journal::new
New ==
    /\ phase = "start"
    /\ \E f \in { g \in Faults : g.op \in { "none", "open" } } :
        LET rc == IF f.op = "open" THEN -1 ELSE 0
        IN  IF ffi_invoke_and_expect_ok(rc)
            THEN /\ journal_handle' = "open"
                 /\ timestamp' = "Real"
                 /\ phase' = "live"
                 /\ n0' = Len(store)
                 /\ seen' = Len(store)
                 /\ fault' = NoFault
            ELSE /\ phase' = "aborted"
                 /\ fault' = f
                 /\ UNCHANGED << journal_handle, timestamp, n0, seen >>
    /\ UNCHANGED << store, cursor, current_field, closes, used_after_close,
                    reads, ret, ops, decoded, next_rc, dangling, derived >>

\* A faulty variant of Read: a read() leaves the reader in mode None.
ReadSwitchingMode ==
    /\ phase = "live"
    /\ reads < MaxReads
    /\ \E f \in { g \in Faults :
                    /\ g.op # "open"
                    /\ g.op = "get_realtime_usec" => timestamp = "Real"
                    /\ g.op = "get_monotonic_usec" => timestamp = "Mono" } :
       \E ub \in IF f.op \in { "next", "enumerate_data" }
                 THEN { Crash }
                 ELSE DanglingReads(store) :
        \E r \in { read(timestamp, store, cursor, current_field, f, ub) } :
            /\ ret' = r.ret
            /\ cursor' = r.cursor
            /\ current_field' = r.current_field
            /\ ops' = r.ops
            /\ decoded' = r.decoded
            /\ next_rc' = r.inc
            /\ dangling' = r.dangling
            /\ fault' = r.hit
            /\ derived' = r.ts
            /\ phase' = CASE r.ret.kind = "panic" -> "unwinding"
                          [] r.ret.kind = "crash" -> "crashed"
                          [] OTHER -> "live"
    /\ reads' = reads + 1
    /\ seen' = Len(store)
    /\ used_after_close' = (used_after_close \/ journal_handle = "closed")
    /\ timestamp' = "None"
    /\ UNCHANGED << store, journal_handle, closes, n0 >>

\* One call of Journal::read by the owner of the Journal.  A read() in which
\* the advance or an enumerate call fails never gets to read through an
\* undelivered pointer, so `ub` is not varied there; a fault of a timestamp
\* query the mode never makes is no fault, so it is not drawn.
Read ==
    /\ phase = "live"
    /\ reads < MaxReads
    /\ \E f \in { g \in Faults :
                    /\ g.op # "open"
                    /\ g.op = "get_realtime_usec" => timestamp = "Real"
                    /\ g.op = "get_monotonic_usec" => timestamp = "Mono" } :
       \E ub \in IF f.op \in { "next", "enumerate_data" }
                 THEN { Crash }
                 ELSE DanglingReads(store) :
        \E r \in { read(timestamp, store, cursor, current_field, f, ub) } :
            /\ ret' = r.ret
            /\ cursor' = r.cursor
            /\ current_field' = r.current_field
            /\ ops' = r.ops
            /\ decoded' = r.decoded
            /\ next_rc' = r.inc
            /\ dangling' = r.dangling
            /\ fault' = r.hit
            /\ derived' = r.ts
            /\ phase' = CASE r.ret.kind = "panic" -> "unwinding"
                          [] r.ret.kind = "crash" -> "crashed"
                          [] OTHER -> "live"
    /\ reads' = reads + 1
    /\ seen' = Len(store)
    /\ used_after_close' = (used_after_close \/ journal_handle = "closed")
    /\ UNCHANGED << store, journal_handle, timestamp, closes, n0 >>

\* A faulty variant of Drop: the handle is never closed.
DropWithoutClose ==
    /\ phase \in { "live", "unwinding" }
    /\ phase' = "dropped"
    /\ UNCHANGED << store, cursor, current_field, journal_handle, timestamp,
                    closes, used_after_close, n0, reads, ret, ops, decoded,
                    next_rc, seen, fault, dangling, derived >>

\* impl Drop for Journal: run when the owner's scope ends or unwinds.
Drop ==
    /\ phase \in { "live", "unwinding" }
    /\ journal_handle' = "closed"
    /\ closes' = closes + 1
    /\ phase' = "dropped"
    /\ UNCHANGED << store, cursor, current_field, timestamp, used_after_close,
                    n0, reads, ret, ops, decoded, next_rc, seen, fault,
                    dangling, derived >>

Next == AppendRecord \/ New \/ Read \/ Drop

Spec == Init /\ [][Next]_vars

\* Journal::new only ever builds a Journal of mode Real, yet the struct holds
\* any TimestampType and obtain_journal_timestamp has an arm for each.
\* NewWithMode builds the struct as new() does, with any of the three modes,
\* so that the arms new() never selects can be exercised.
NewWithMode ==
    /\ phase = "start"
    /\ \E mode \in TimestampType :
       \E f \in { g \in Faults : g.op \in { "none", "open" } } :
        LET rc == IF f.op = "open" THEN -1 ELSE 0
        IN  IF ffi_invoke_and_expect_ok(rc)
            THEN /\ journal_handle' = "open"
                 /\ timestamp' = mode
                 /\ phase' = "live"
                 /\ n0' = Len(store)
                 /\ seen' = Len(store)
                 /\ fault' = NoFault
            ELSE /\ phase' = "aborted"
                 /\ fault' = f
                 /\ UNCHANGED << journal_handle, timestamp, n0, seen >>
    /\ UNCHANGED << store, cursor, current_field, closes, used_after_close,
                    reads, ret, ops, decoded, next_rc, dangling, derived >>

NextModes == AppendRecord \/ NewWithMode \/ Read \/ Drop

SpecModes == Init /\ [][NextModes]_vars

\* ---------------------------------------------------------------- claims
\* What the claims speak of, stated apart from the code's own operators.
HasEq(t) == \E i \in 1..Len(t) : t[i] = "="
FirstEq(t) == CHOOSE i \in 1..Len(t) : t[i] = "=" /\ \A j \in 1..(i - 1) : t[j] # "="
KeyOf(t) == [i \in 1..(FirstEq(t) - 1) |-> t[i]]
ValueOf(t) == [i \in 1..(Len(t) - FirstEq(t)) |-> t[FirstEq(t) + i]]
FieldsOf(i) == store[i].fields
Constructed == phase \in { "live", "unwinding", "crashed", "dropped" }

\* The last read() met no store error, and what it read through an
\* undelivered pointer, if anything, was the last delivered field, unchanged.
IntactDangling ==
    \/ dangling = Undelivered
    \/ /\ cursor >= 1
       /\ Len(FieldsOf(cursor)) >= 1
       /\ dangling = FieldsOf(cursor)[Len(FieldsOf(cursor))]
AllValidText ==
    \A i \in 1..Len(store) : \A j \in 1..Len(FieldsOf(i)) : to_str_ok(FieldsOf(i)[j])
AllFitI64 == \A i \in 1..Len(store) : i64_try_from_ok(store[i].realtime)

\* C1: sd_journal_close is issued at most once in any run; a live reader's
\* handle is open and not yet closed; once the reader has been torn down
\* (scope exit, abandoned iteration or a panic out of read()) the handle
\* has been closed exactly once; no store call follows the close.
C1_ClosedExactlyOnce ==
    /\ closes <= 1
    /\ ~used_after_close
    /\ (phase \in { "live", "unwinding" } => closes = 0 /\ journal_handle = "open")
    /\ (phase = "dropped" => closes = 1 /\ journal_handle = "closed")

\* A reader torn down after two read() calls with a record still unread.
C1_Witness ==
    /\ phase = "dropped"
    /\ reads = 2
    /\ cursor < Len(store)
    /\ closes = 1

\* C2: in mode Realtime every entry read() returns holds the realtime
\* timestamp key, in mode Monotonic the monotonic timestamp key.
C2_TimestampKeyInjected ==
    (ret.kind = "some" /\ IntactDangling) =>
        /\ timestamp = "Real" => JOURNAL_REALTIME_TIMESTAMP_KEY \in DOMAIN ret.map
        /\ timestamp = "Mono" => JOURNAL_MONOTOMIC_TIMESTAMP_KEY \in DOMAIN ret.map

\* C3: with records r1..rn in the store at construction and none appended,
\* and no store error, the k-th read() (k <= n) returns the entry of r_k and
\* every later read() returns nothing.
C3_StoreOrder ==
    ( /\ Constructed
      /\ Len(store) = n0
      /\ reads >= 1
      /\ fault = NoFault
      /\ AllValidText
      /\ AllFitI64
      /\ IntactDangling ) =>
        IF reads <= n0
        THEN ret.kind = "some" /\ ret.rec = reads
        ELSE ret.kind = "none"

\* C4: a read() made when the last read() returned nothing and no record
\* has been appended since, the store again reporting no error, returns
\* nothing, does not panic, and leaves the cursor, the field index, the
\* handle, the mode and the reader's liveness as they were.
C4_ExhaustionIdempotent ==
    [][ ( /\ ret.kind = "none"
          /\ seen = Len(store)
          /\ reads' = reads + 1
          /\ fault' = NoFault ) =>
            /\ ret' = RetNone
            /\ cursor' = cursor
            /\ current_field' = current_field
            /\ journal_handle' = journal_handle
            /\ timestamp' = timestamp
            /\ phase' = "live" ]_vars

\* Two read() calls in a row returned nothing after a record was read.
C4_Witness ==
    /\ reads = 3
    /\ cursor = 1
    /\ Len(store) = 1
    /\ seen = 1
    /\ ret.kind = "none"
    /\ phase = "live"

\* The entry returned holds every well-formed field of the record it is for,
\* a repeated key holding the value of its last field.
HoldsAllFields ==
    \A j \in 1..Len(FieldsOf(ret.rec)) :
        LET t == FieldsOf(ret.rec)[j]
        IN  HasEq(t) =>
                /\ KeyOf(t) \in DOMAIN ret.map
                /\ \/ ret.map[KeyOf(t)] = ValueOf(t)
                   \/ \E j2 \in (j + 1)..Len(FieldsOf(ret.rec)) :
                        /\ HasEq(FieldsOf(ret.rec)[j2])
                        /\ KeyOf(FieldsOf(ret.rec)[j2]) = KeyOf(t)

\* C5: a read() made after a read() that returned nothing, and after records
\* were appended since, returns the entry of the first appended record.
C5_Resumable ==
    [][ ( /\ ret.kind = "none"
          /\ seen < Len(store)
          /\ reads' = reads + 1
          /\ fault' = NoFault
          /\ AllValidText
          /\ AllFitI64
          /\ IntactDangling' ) =>
            /\ ret'.kind = "some"
            /\ ret'.rec = seen + 1 ]_vars

\* C6: a read() to which the store reported "no more records" returns
\* nothing, issues no store call but the advance and leaves the cursor in
\* place; a read() that returns an entry was told the cursor moved, moved it
\* by one record and returns the entry of the record it moved to.
C6_EntryOnlyWhenMoved ==
    [][ reads' = reads + 1 =>
            /\ next_rc' = 0 =>
                 /\ ret' = RetNone
                 /\ ops' = << "next" >>
                 /\ decoded' = << >>
                 /\ cursor' = cursor
            /\ ret'.kind = "some" =>
                 /\ next_rc' = 1
                 /\ cursor' = cursor + 1
                 /\ ret'.rec = cursor' ]_vars

\* A read() that returned nothing after one that returned an entry.
C6_Witness ==
    /\ reads = 2
    /\ cursor = 1
    /\ next_rc = 0
    /\ ret = RetNone
    /\ ops = << "next" >>

\* C7: every pass of the loop that decodes a text holding '=' adds exactly
\* the pair (text before the first '=', text after that '=') to the mapping
\* and leaves its other keys alone; a text without '=' leaves the mapping as
\* it was.
C7_SplitAtFirstEq ==
    \A i \in 1..Len(decoded) :
        LET t == decoded[i].text
            before == decoded[i].into
            after == decoded[i].out
        IN  IF HasEq(t)
            THEN /\ DOMAIN after = DOMAIN before \cup { KeyOf(t) }
                 /\ after[KeyOf(t)] = ValueOf(t)
                 /\ \A k \in DOMAIN before : k # KeyOf(t) => after[k] = before[k]
                 /\ KeyOf(t) \o << "=" >> \o ValueOf(t) = t
                 /\ ~HasEq(KeyOf(t))
            ELSE after = before

\* The record NOEQ, A=B=C, K= was read: A holds B=C, K holds the empty
\* text and NOEQ left nothing.
C7_Witness ==
    /\ ret.kind = "some"
    /\ Len(decoded) = 4
    /\ decoded[1].text = F_NOEQ
    /\ DOMAIN ret.map = { << "A" >>, << "K" >> }
    /\ ret.map[<< "A" >>] = << "B", "=", "C" >>
    /\ ret.map[<< "K" >>] = << >>

\* C8: a read() that moved the cursor to a record of valid text fields whose
\* timestamp converts, with no store error, returns a mapping that holds
\* every well-formed field of that record, the last one included.
C8_EveryFieldReturned ==
    ( /\ reads >= 1
      /\ next_rc = 1
      /\ fault = NoFault
      /\ AllValidText
      /\ from_timestamp_ok(store[cursor].realtime)
      /\ Len(FieldsOf(cursor)) >= 1 ) =>
        /\ ret.kind = "some"
        /\ HoldsAllFields

\* C9: every pair of a returned entry, the timestamp key aside, was decoded
\* from a field of the record the cursor moved to in that call.
C9_NoForeignPair ==
    ret.kind = "some" =>
        \A k \in DOMAIN ret.map :
            \/ k = JOURNAL_REALTIME_TIMESTAMP_KEY
            \/ \E j \in 1..Len(FieldsOf(ret.rec)) :
                 LET t == FieldsOf(ret.rec)[j]
                 IN  HasEq(t) /\ KeyOf(t) = k /\ ValueOf(t) = ret.map[k]

\* C10: a read() that moved the cursor to a record with a bad field (no '='
\* or not valid text), whose timestamp converts, still returns an entry
\* holding the record's other fields.
C10_BadFieldTolerated ==
    ( /\ reads >= 1
      /\ next_rc = 1
      /\ fault = NoFault
      /\ IntactDangling
      /\ from_timestamp_ok(store[cursor].realtime)
      /\ \E j \in 1..Len(FieldsOf(cursor)) :
            ~HasEq(FieldsOf(cursor)[j]) \/ ~to_str_ok(FieldsOf(cursor)[j]) ) =>
        /\ ret.kind = "some"
        /\ HoldsAllFields

\* The last read() obtained the realtime stamp of the record it moved to.
RealtimeObtained ==
    /\ reads >= 1
    /\ timestamp = "Real"
    /\ derived.stage \in { "try_from", "from_timestamp", "ok" }

\* C11: a realtime stamp above i64::MAX stops read() in the conversion to
\* i64: read() panics, returns no entry and no count of seconds is derived
\* from the stamp; a stamp that fits is handed on with its value unchanged.
C11_RealtimeRangeChecked ==
    RealtimeObtained =>
        LET usec == store[cursor].realtime
        IN  /\ derived.usec = usec
            /\ IF U64Leq(usec, I64_MAX)
               THEN /\ derived.stage \in { "from_timestamp", "ok" }
                    /\ derived.secs = usec
               ELSE /\ derived.stage = "try_from"
                    /\ derived.secs = << >>
                    /\ ret = RetPanic
                    /\ phase # "live"

\* A record stamped i64::MAX + 1 was read and the conversion panicked.
C11_Witness ==
    /\ RealtimeObtained
    /\ store[cursor].realtime = T_OVER
    /\ derived.stage = "try_from"
    /\ ret = RetPanic

\* usec div 1_000_000, on the limbs of a u64.
WholeSeconds(usec) == << 0, usec[1], usec[2], usec[3] >>

\* C12: a realtime stamp of u microseconds whose whole seconds chrono can
\* hold becomes the instant u div 1_000_000 seconds after the epoch, and
\* the conversion does not panic.
C12_MicrosecondsSinceEpoch ==
    ( /\ RealtimeObtained
      /\ U64Leq(store[cursor].realtime, I64_MAX)
      /\ from_timestamp_ok(WholeSeconds(store[cursor].realtime)) ) =>
        /\ derived.stage = "ok"
        /\ derived.secs = WholeSeconds(store[cursor].realtime)

\* The store calls of the last read(): one advance, one reset to the first
\* field, one or more enumerations, then the timestamp query of the mode.
StoreCallsInOrder ==
    LET query == IF timestamp = "Real" THEN << "get_realtime_usec" >>
                 ELSE IF timestamp = "Mono" THEN << "get_monotonic_usec" >>
                 ELSE << >>
        n == Len(ops) - Len(query)
    IN  /\ n >= 3
        /\ ops[1] = "next"
        /\ ops[2] = "restart_data"
        /\ \A i \in 3..n : ops[i] = "enumerate_data"
        /\ SubSeq(ops, n + 1, Len(ops)) = query

\* C13: a read() that returns an entry made its store calls in the order
\* advance, reset, enumerations, timestamp query, with no second advance,
\* and the entry it returns already holds the timestamp of the mode.
C13_OneRecordPerRead ==
    (ret.kind = "some" /\ fault = NoFault) =>
        /\ StoreCallsInOrder
        /\ timestamp = "Real" => JOURNAL_REALTIME_TIMESTAMP_KEY \in DOMAIN ret.map
        /\ timestamp = "Mono" => JOURNAL_MONOTOMIC_TIMESTAMP_KEY \in DOMAIN ret.map

\* The value the store holds under a key in a record: that of the last
\* field of the record with this key.
RawValue(i, k) ==
    LET js == { j \in 1..Len(FieldsOf(i)) :
                    HasEq(FieldsOf(i)[j]) /\ KeyOf(FieldsOf(i)[j]) = k }
        last == CHOOSE j \in js : \A j2 \in js : j2 <= j
    IN  ValueOf(FieldsOf(i)[last])
HasRawKey(i, k) ==
    \E j \in 1..Len(FieldsOf(i)) : HasEq(FieldsOf(i)[j]) /\ KeyOf(FieldsOf(i)[j]) = k

\* C14: when the record read carries a raw field named like the timestamp
\* key of the mode, the entry holds the derived timestamp under that key
\* and not the raw field's value.
C14_SyntheticTimestampWins ==
    LET key == IF timestamp = "Real" THEN JOURNAL_REALTIME_TIMESTAMP_KEY
               ELSE JOURNAL_MONOTOMIC_TIMESTAMP_KEY
    IN  ( /\ ret.kind = "some"
          /\ timestamp \in { "Real", "Mono" }
          /\ fault = NoFault
          /\ IntactDangling
          /\ HasRawKey(ret.rec, key) ) =>
            /\ key \in DOMAIN ret.map
            /\ ret.map[key] # RawValue(ret.rec, key)

\* The keys that two or more fields of a record carry.
RepeatedKeys(i) ==
    { KeyOf(FieldsOf(i)[j]) : j \in { j1 \in 1..Len(FieldsOf(i)) :
        /\ HasEq(FieldsOf(i)[j1])
        /\ \E j2 \in 1..Len(FieldsOf(i)) :
              /\ j2 # j1
              /\ HasEq(FieldsOf(i)[j2])
              /\ KeyOf(FieldsOf(i)[j2]) = KeyOf(FieldsOf(i)[j1]) } }

\* C15: a read() of a record in which several fields carry one key, with no
\* store error, returns an entry that holds this key with the value of the
\* last of these fields.
C15_LastWriteWins ==
    ( /\ reads >= 1
      /\ next_rc = 1
      /\ fault = NoFault
      /\ AllValidText
      /\ from_timestamp_ok(store[cursor].realtime)
      /\ RepeatedKeys(cursor) # { } ) =>
        /\ ret.kind = "some"
        /\ \A k \in RepeatedKeys(cursor) :
              /\ k \in DOMAIN ret.map
              /\ ret.map[k] = RawValue(cursor, k)

\* The store calls the last read() made.
Called == { ops[i] : i \in 1..Len(ops) }

\* C16: a read() of a reader in mode None asks the store for no realtime
\* and no monotonic stamp and derives no timestamp; the entry it returns is
\* the mapping the field loop built, nothing added, and it holds a timestamp
\* key only when a raw field of the record read has that name.
C16_NoTimestampInModeNone ==
    (timestamp = "None" /\ reads >= 1) =>
        /\ "get_realtime_usec" \notin Called
        /\ "get_monotonic_usec" \notin Called
        /\ derived = NoTs
        /\ ret.kind = "some" => ret.map = decoded[Len(decoded)].out
        /\ (ret.kind = "some" /\ IntactDangling) =>
              \A key \in { JOURNAL_REALTIME_TIMESTAMP_KEY,
                           JOURNAL_MONOTOMIC_TIMESTAMP_KEY } :
                  key \in DOMAIN ret.map => HasRawKey(ret.rec, key)

\* In mode None a record with a raw field named like the realtime key was
\* read: the entry holds the raw value and no stamp was asked for.
C16_Witness ==
    /\ timestamp = "None"
    /\ ret.kind = "some"
    /\ IntactDangling
    /\ HasRawKey(ret.rec, JOURNAL_REALTIME_TIMESTAMP_KEY)
    /\ ret.map[JOURNAL_REALTIME_TIMESTAMP_KEY] = << "r", "a", "w" >>
    /\ ops[Len(ops)] = "enumerate_data"

\* C17: once built, a reader's mode is None, Real or Mono, and no step
\* taken after construction (a read() or the teardown) changes it.
C17_ModeFixedAtConstruction ==
    [][ /\ Constructed' => timestamp' \in TimestampType
        /\ Constructed => timestamp' = timestamp ]_vars

\* A reader torn down after three read() calls, its mode as new() set it.
C17_Witness ==
    /\ phase = "dropped"
    /\ reads = MaxReads
    /\ cursor >= 1
    /\ timestamp = "Real"

\* C18: a read() whose sd_journal_next reported an error panics: it returns
\* neither an entry nor "no more entries", makes no further store call and
\* the reader is live no more.  A read() that returned "no more entries" was
\* told by sd_journal_next, without error, that the cursor did not move.
C18_AdvanceErrorIsFatal ==
    reads >= 1 =>
        /\ next_rc < 0 =>
              /\ ret = RetPanic
              /\ ops = << "next" >>
              /\ phase \in { "unwinding", "dropped" }
        /\ ret = RetNone =>
              /\ next_rc = 0
              /\ fault = NoFault

\* The second read() met an error of sd_journal_next, the first one having
\* moved the cursor to a record.
C18_Witness ==
    /\ reads = 2
    /\ cursor = 1
    /\ next_rc < 0
    /\ fault.op = "next"
    /\ ret = RetPanic
    /\ phase = "unwinding"

\* C19: a read() that moved the cursor decodes only buffers its
\* sd_journal_enumerate_data calls delivered, each in the pass that
\* delivered it: the i-th text decoded is the i-th field of the record,
\* nothing is read through the initial null pointer or through the buffer
\* of an earlier pass, and the process is not killed.
C19_DecodesOnlyDelivered ==
    (reads >= 1 /\ next_rc = 1) =>
        /\ dangling = Undelivered
        /\ ret.kind # "crash"
        /\ Len(decoded) <= Len(FieldsOf(cursor))
        /\ \A i \in 1..Len(decoded) : decoded[i].text = FieldsOf(cursor)[i]

=============================================================================
